---- MODULE Spec2Model ----
(***************************************************************************)
(* HAPPYBOMBER escrow program (solana/programs/escrow/src/lib.rs).         *)
(*                                                                         *)
(* The state is the set of Game accounts (one per game_id), the balances   *)
(* of the SPL token accounts the instructions can be handed, and the log   *)
(* of PlayerRefunded events.  Every instruction is one action: Anchor's    *)
(* account validation, then the handler, translated statement by           *)
(* statement; the handler's result is written back only when it returns    *)
(* Ok (a failed Solana transaction leaves no account changed).             *)
(***************************************************************************)
EXTENDS Integers, Sequences, FiniteSets, TLC

\* ---------------------------------------------------------------- bounds
\* Successful instructions in one behaviour.
MaxOps == 9
\* Stand-in for u64::MAX (TLC's integers are 32 bits wide).
U64Max == 65535

\* ------------------------------------------------------ program constants
MaxPlayers == 5
PoolMultiplier == 5
FeeDivisor == 20
DefaultPubkey == 0

\* ---------------------------------------------------------------- inputs
GameIds == {0, 1}
Users == 1..6
HouseKey == Cardinality(Users) + 1
StakeAmounts == {0, 19, 100, 1000, U64Max}
\* The create_game requests: who asks for which game_id with which stake.
CreateRequests ==
    {[creator |-> 1, game_id |-> 0, stake_amount |-> s] : s \in StakeAmounts}
        \cup {[creator |-> 6, game_id |-> 1, stake_amount |-> 100]}
InitialBalance == [u \in Users |-> 1000]
Indexes == 0..MaxPlayers
\* What Clock::get() returns (slot: u64, unix_timestamp: i64): at a
\* create_game the sysvar's default value, as a local runtime starts with,
\* and at a start_game that value still or a later one.
ClockAtCreate == {[slot |-> 0, unix_timestamp |-> 0]}
ClockAtStart == {[slot |-> 0, unix_timestamp |-> 0], [slot |-> 2, unix_timestamp |-> 20]}

Slots == 0..(MaxPlayers - 1)

\* Option<T>: None is the empty sequence, Some(v) the one-element sequence.
None == << >>
Some(v) == <<v>>

\* ------------------------------------------------------- token accounts
\* An SPL token account is named by its address.  Wallet(k) is a USDC
\* account owned by key k, Vault(g) the PDA ["vault", game_id] (its own
\* authority), OtherMint an account of user 1 in a different mint.
Wallet(k) == <<"wallet", k>>
Vault(g) == <<"vault", g>>
OtherMint == <<"other", 1>>
VaultPda(g) == 0 - 1 - g

TokenAccounts ==
    {Wallet(k) : k \in Users \cup {HouseKey}} \cup {Vault(g) : g \in GameIds} \cup {OtherMint}

Owner(acc) == IF acc[1] = "vault" THEN VaultPda(acc[2]) ELSE acc[2]
Mint(acc) == IF acc[1] = "other" THEN "OTHER" ELSE "USDC"

VARIABLES game, amount, refunded, last
vars == <<game, amount, refunded, last>>

\* The Game account before create_game: not initialized.
NoGame ==
    [initialized |-> FALSE, game_id |-> 0, creator |-> DefaultPubkey, stake_amount |-> 0,
     player_count |-> 0, players |-> [i \in Slots |-> DefaultPubkey], status |-> "Waiting",
     seed |-> <<0, 0, 0, 0>>, winner |-> None, created_at |-> 0, started_at |-> None]

\* A token account exists once it is initialized: the wallets always, a
\* vault from the create_game of its game on.
Exists(acc) == IF acc[1] = "vault" THEN game[acc[2]].initialized ELSE TRUE

Init ==
    /\ game = [g \in GameIds |-> NoGame]
    /\ amount = [acc \in TokenAccounts |->
                    IF acc[1] = "wallet" /\ acc[2] \in Users THEN InitialBalance[acc[2]] ELSE 0]
    /\ refunded = [g \in GameIds |-> [u \in Users |-> 0]]
    /\ last = [op |-> "none", g |-> 0, err |-> "Ok"]

\* ------------------------------------------------------------ arithmetic
\* u64 multiplication: a build with overflow checks panics (the transaction
\* fails), one without wraps.
U64Mul(a, b) == (a * b) % (U64Max + 1)
U64MulOverflows(a, b) == a * b > U64Max

\* ----------------------------------------------------- SPL token transfer
\* token::transfer(cpi_ctx, n): the token program's checks in its order,
\* then the two balances.
TokenOk(amt) == [err |-> "Ok", amount |-> amt]
TokenErr(e, amt) == [err |-> e, amount |-> amt]

token_transfer(amt, from, to, authority, n) ==
    IF amt[from] < n THEN TokenErr("InsufficientFunds", amt)
    ELSE IF Mint(from) # Mint(to) THEN TokenErr("MintMismatch", amt)
    ELSE IF Owner(from) # authority THEN TokenErr("OwnerMismatch", amt)
    ELSE IF from = to \/ n = 0 THEN TokenOk(amt)
    ELSE IF amt[to] + n > U64Max THEN TokenErr("Overflow", amt)
    ELSE TokenOk([amt EXCEPT ![from] = @ - n, ![to] = @ + n])

\* ------------------------------------------------------ handler results
\* What a handler leaves behind when it returns: the accounts as it wrote
\* them so far, the events it emitted, and Ok or the error.
Result(e, gm, amt, ev) == [err |-> e, game |-> gm, amount |-> amt, ev |-> ev]

\* (mutant) the accounts are written back whatever the handler returned.
CommittedAlways(res) == [game |-> res.game, amount |-> res.amount, ev |-> res.ev]

\* The runtime's end of an instruction: the accounts are written back when
\* the handler returned Ok and left as they were when it returned an error.
Committed(res) ==
    IF res.err = "Ok" THEN [game |-> res.game, amount |-> res.amount, ev |-> res.ev]
    ELSE [game |-> game, amount |-> amount, ev |-> << >>]

\* ------------------------------------------------------ account validation
\* #[derive(Accounts)]: the checks Anchor makes before the handler runs.
CreateGame(ctx, game_id) ==
    IF game[game_id].initialized THEN "AccountAlreadyInUse" ELSE "Ok"

JoinGame(ctx) ==
    IF ~game[ctx.game].initialized THEN "AccountNotInitialized"
    ELSE IF ~Exists(ctx.vault) \/ ~Exists(ctx.player_token_account) THEN "AccountNotInitialized"
    ELSE IF ctx.vault # Vault(game[ctx.game].game_id) THEN "ConstraintSeeds"
    ELSE "Ok"

StartGame(ctx) ==
    IF ~game[ctx.game].initialized THEN "AccountNotInitialized" ELSE "Ok"

EndGame(ctx) ==
    IF ~game[ctx.game].initialized THEN "AccountNotInitialized"
    ELSE IF \/ ~Exists(ctx.vault)
            \/ ~Exists(ctx.winner_token_account)
            \/ ~Exists(ctx.house_token_account) THEN "AccountNotInitialized"
    ELSE IF ctx.vault # Vault(game[ctx.game].game_id) THEN "ConstraintSeeds"
    ELSE "Ok"

CancelGame(ctx) ==
    IF ~game[ctx.game].initialized THEN "AccountNotInitialized" ELSE "Ok"

RefundPlayer(ctx) ==
    IF ~game[ctx.game].initialized THEN "AccountNotInitialized"
    ELSE IF ~Exists(ctx.vault) \/ ~Exists(ctx.player_token_account) THEN "AccountNotInitialized"
    ELSE IF ctx.vault # Vault(game[ctx.game].game_id) THEN "ConstraintSeeds"
    ELSE "Ok"

\* ---------------------------------------------------------------- handlers
create_game(ctx, game_id, stake_amount, clock) ==
    LET g == ctx.game
        new == [initialized |-> TRUE,
                game_id |-> game_id,
                creator |-> ctx.creator,
                stake_amount |-> stake_amount,
                player_count |-> 0,
                players |-> [i \in Slots |-> DefaultPubkey],
                status |-> "Waiting",
                seed |-> <<0, 0, 0, 0>>,
                winner |-> None,
                created_at |-> clock.unix_timestamp,
                started_at |-> None]
    IN  Result("Ok", [game EXCEPT ![g] = new], amount,
               <<[type |-> "GameCreated", game_id |-> game_id, creator |-> ctx.creator,
                  stake_amount |-> stake_amount]>>)

\* (mutant) join_game adding one to player_count before it stores the
\* player at players[player_count]: the write past the fifth entry panics.
join_game_count_first(ctx) ==
    LET g == ctx.game
        gm == game[g]
        player == ctx.player
    IN  IF gm.status # "Waiting" THEN Result("GameNotWaiting", game, amount, << >>)
        ELSE IF ~(gm.player_count < MaxPlayers) THEN Result("GameFull", game, amount, << >>)
        ELSE IF \E i \in Slots : i < gm.player_count /\ gm.players[i] = player
             THEN Result("AlreadyJoined", game, amount, << >>)
        ELSE LET t == token_transfer(amount, ctx.player_token_account, ctx.vault,
                                     player, gm.stake_amount)
             IN  IF t.err # "Ok" THEN Result(t.err, game, t.amount, << >>)
                 ELSE LET game1 == [game EXCEPT ![g].player_count = @ + 1]
                      IN  IF ~(game1[g].player_count < MaxPlayers)
                          THEN Result("ProgramFailedToComplete", game1, t.amount, << >>)
                          ELSE LET game2 == [game1 EXCEPT
                                                ![g].players[game1[g].player_count] = player]
                               IN  Result("Ok", game2, t.amount,
                                          <<[type |-> "PlayerJoined", game_id |-> gm.game_id,
                                             player |-> player,
                                             player_count |-> game2[g].player_count]>>)

\* (mutant) join_game without the loop over the players already joined.
join_game_no_duplicate_check(ctx) ==
    LET g == ctx.game
        gm == game[g]
        player == ctx.player
    IN  IF gm.status # "Waiting" THEN Result("GameNotWaiting", game, amount, << >>)
        ELSE IF ~(gm.player_count < MaxPlayers) THEN Result("GameFull", game, amount, << >>)
        ELSE LET t == token_transfer(amount, ctx.player_token_account, ctx.vault,
                                     player, gm.stake_amount)
             IN  IF t.err # "Ok" THEN Result(t.err, game, t.amount, << >>)
                 ELSE LET game1 == [game EXCEPT ![g].players[gm.player_count] = player]
                          game2 == [game1 EXCEPT ![g].player_count = @ + 1]
                      IN  Result("Ok", game2, t.amount,
                                 <<[type |-> "PlayerJoined", game_id |-> gm.game_id,
                                    player |-> player,
                                    player_count |-> game2[g].player_count]>>)

\* (mutant) join_game without the check of player_count: the write past the
\* fifth entry of players panics.
join_game_no_full_check(ctx) ==
    LET g == ctx.game
        gm == game[g]
        player == ctx.player
    IN  IF gm.status # "Waiting" THEN Result("GameNotWaiting", game, amount, << >>)
        ELSE IF \E i \in Slots : i < gm.player_count /\ gm.players[i] = player
             THEN Result("AlreadyJoined", game, amount, << >>)
        ELSE LET t == token_transfer(amount, ctx.player_token_account, ctx.vault,
                                     player, gm.stake_amount)
             IN  IF t.err # "Ok" THEN Result(t.err, game, t.amount, << >>)
                 ELSE IF ~(gm.player_count < MaxPlayers)
                 THEN Result("ProgramFailedToComplete", game, t.amount, << >>)
                 ELSE LET game1 == [game EXCEPT ![g].players[gm.player_count] = player]
                          game2 == [game1 EXCEPT ![g].player_count = @ + 1]
                      IN  Result("Ok", game2, t.amount,
                                 <<[type |-> "PlayerJoined", game_id |-> gm.game_id,
                                    player |-> player,
                                    player_count |-> game2[g].player_count]>>)

join_game(ctx) ==
    LET g == ctx.game
        gm == game[g]
        player == ctx.player
    IN  IF gm.status # "Waiting" THEN Result("GameNotWaiting", game, amount, << >>)
        ELSE IF ~(gm.player_count < MaxPlayers) THEN Result("GameFull", game, amount, << >>)
        ELSE IF \E i \in Slots : i < gm.player_count /\ gm.players[i] = player
             THEN Result("AlreadyJoined", game, amount, << >>)
        ELSE LET t == token_transfer(amount, ctx.player_token_account, ctx.vault,
                                     player, gm.stake_amount)
             IN  IF t.err # "Ok" THEN Result(t.err, game, t.amount, << >>)
                 ELSE LET game1 == [game EXCEPT ![g].players[gm.player_count] = player]
                          game2 == [game1 EXCEPT ![g].player_count = @ + 1]
                      IN  Result("Ok", game2, t.amount,
                                 <<[type |-> "PlayerJoined", game_id |-> gm.game_id,
                                    player |-> player,
                                    player_count |-> game2[g].player_count]>>)

\* (mutant) start_game without the check of player_count.
start_game_any_count(ctx, clock) ==
    LET g == ctx.game
        gm == game[g]
    IN  IF gm.status # "Waiting" THEN Result("GameNotWaiting", game, amount, << >>)
        ELSE LET seed_data == <<gm.game_id, clock.slot, clock.unix_timestamp, 0>>
                 game1 == [game EXCEPT ![g].seed = seed_data,
                                       ![g].status = "Live",
                                       ![g].started_at = Some(clock.unix_timestamp)]
             IN  Result("Ok", game1, amount,
                        <<[type |-> "GameStarted", game_id |-> gm.game_id,
                           seed |-> seed_data, started_at |-> clock.unix_timestamp]>>)

\* (mutant) start_game without the status check.
start_game_any_status(ctx, clock) ==
    LET g == ctx.game
        gm == game[g]
    IN  IF gm.player_count # MaxPlayers
        THEN Result("NotEnoughPlayers", game, amount, << >>)
        ELSE LET seed_data == <<gm.game_id, clock.slot, clock.unix_timestamp, 0>>
                 game1 == [game EXCEPT ![g].seed = seed_data,
                                       ![g].status = "Live",
                                       ![g].started_at = Some(clock.unix_timestamp)]
             IN  Result("Ok", game1, amount,
                        <<[type |-> "GameStarted", game_id |-> gm.game_id,
                           seed |-> seed_data, started_at |-> clock.unix_timestamp]>>)

\* The seed: game_id in bytes 0..8, the slot in 8..16, the timestamp in
\* 16..24, zero in 24..32; held as its four 8-byte words.
start_game(ctx, clock) ==
    LET g == ctx.game
        gm == game[g]
    IN  IF gm.status # "Waiting" THEN Result("GameNotWaiting", game, amount, << >>)
        ELSE IF gm.player_count # MaxPlayers
             THEN Result("NotEnoughPlayers", game, amount, << >>)
        ELSE LET seed_data == <<gm.game_id, clock.slot, clock.unix_timestamp, 0>>
                 game1 == [game EXCEPT ![g].seed = seed_data,
                                       ![g].status = "Live",
                                       ![g].started_at = Some(clock.unix_timestamp)]
             IN  Result("Ok", game1, amount,
                        <<[type |-> "GameStarted", game_id |-> gm.game_id,
                           seed |-> seed_data, started_at |-> clock.unix_timestamp]>>)

\* (mutant) end_game without the assignment of status.
end_game_keeps_live(ctx, winner_index, overflow_checks) ==
    LET g == ctx.game
        gm == game[g]
    IN  IF gm.status # "Live" THEN Result("GameNotLive", game, amount, << >>)
        ELSE IF ~(winner_index < MaxPlayers) THEN Result("InvalidWinner", game, amount, << >>)
        ELSE LET winner == gm.players[winner_index] IN
        IF winner = DefaultPubkey THEN Result("InvalidWinner", game, amount, << >>)
        ELSE LET game1 == [game EXCEPT ![g].winner = Some(winner)] IN
        IF overflow_checks /\ U64MulOverflows(gm.stake_amount, PoolMultiplier)
        THEN Result("ProgramFailedToComplete", game1, amount, << >>)
        ELSE LET total_pool == U64Mul(gm.stake_amount, PoolMultiplier)
                 house_fee == total_pool \div FeeDivisor
                 winner_payout == total_pool - house_fee
                 t1 == token_transfer(amount, ctx.vault, ctx.winner_token_account,
                                      Owner(ctx.vault), winner_payout)
             IN  IF t1.err # "Ok" THEN Result(t1.err, game1, t1.amount, << >>)
                 ELSE LET t2 == token_transfer(t1.amount, ctx.vault, ctx.house_token_account,
                                               Owner(ctx.vault), house_fee)
                      IN  IF t2.err # "Ok" THEN Result(t2.err, game1, t2.amount, << >>)
                          ELSE Result("Ok", game1, t2.amount,
                                      <<[type |-> "GameEnded", game_id |-> gm.game_id,
                                         winner |-> winner, winner_payout |-> winner_payout,
                                         house_fee |-> house_fee]>>)

\* (mutant) end_game with the bound of winner_index off by one
\* (winner_index <= 5): reading players[5] panics.
end_game_index_off_by_one(ctx, winner_index, overflow_checks) ==
    LET g == ctx.game
        gm == game[g]
    IN  IF gm.status # "Live" THEN Result("GameNotLive", game, amount, << >>)
        ELSE IF ~(winner_index <= MaxPlayers) THEN Result("InvalidWinner", game, amount, << >>)
        ELSE IF ~(winner_index < MaxPlayers)
        THEN Result("ProgramFailedToComplete", game, amount, << >>)
        ELSE LET winner == gm.players[winner_index] IN
        IF winner = DefaultPubkey THEN Result("InvalidWinner", game, amount, << >>)
        ELSE LET game1 == [game EXCEPT ![g].winner = Some(winner), ![g].status = "Finished"] IN
        IF overflow_checks /\ U64MulOverflows(gm.stake_amount, PoolMultiplier)
        THEN Result("ProgramFailedToComplete", game1, amount, << >>)
        ELSE LET total_pool == U64Mul(gm.stake_amount, PoolMultiplier)
                 house_fee == total_pool \div FeeDivisor
                 winner_payout == total_pool - house_fee
                 t1 == token_transfer(amount, ctx.vault, ctx.winner_token_account,
                                      Owner(ctx.vault), winner_payout)
             IN  IF t1.err # "Ok" THEN Result(t1.err, game1, t1.amount, << >>)
                 ELSE LET t2 == token_transfer(t1.amount, ctx.vault, ctx.house_token_account,
                                               Owner(ctx.vault), house_fee)
                      IN  IF t2.err # "Ok" THEN Result(t2.err, game1, t2.amount, << >>)
                          ELSE Result("Ok", game1, t2.amount,
                                      <<[type |-> "GameEnded", game_id |-> gm.game_id,
                                         winner |-> winner, winner_payout |-> winner_payout,
                                         house_fee |-> house_fee]>>)

\* (mutant) end_game with a fee of a tenth of the pool.
end_game_fee_tenth(ctx, winner_index, overflow_checks) ==
    LET g == ctx.game
        gm == game[g]
    IN  IF gm.status # "Live" THEN Result("GameNotLive", game, amount, << >>)
        ELSE IF ~(winner_index < MaxPlayers) THEN Result("InvalidWinner", game, amount, << >>)
        ELSE LET winner == gm.players[winner_index] IN
        IF winner = DefaultPubkey THEN Result("InvalidWinner", game, amount, << >>)
        ELSE LET game1 == [game EXCEPT ![g].winner = Some(winner), ![g].status = "Finished"] IN
        IF overflow_checks /\ U64MulOverflows(gm.stake_amount, PoolMultiplier)
        THEN Result("ProgramFailedToComplete", game1, amount, << >>)
        ELSE LET total_pool == U64Mul(gm.stake_amount, PoolMultiplier)
                 house_fee == total_pool \div (FeeDivisor \div 2)
                 winner_payout == total_pool - house_fee
                 t1 == token_transfer(amount, ctx.vault, ctx.winner_token_account,
                                      Owner(ctx.vault), winner_payout)
             IN  IF t1.err # "Ok" THEN Result(t1.err, game1, t1.amount, << >>)
                 ELSE LET t2 == token_transfer(t1.amount, ctx.vault, ctx.house_token_account,
                                               Owner(ctx.vault), house_fee)
                      IN  IF t2.err # "Ok" THEN Result(t2.err, game1, t2.amount, << >>)
                          ELSE Result("Ok", game1, t2.amount,
                                      <<[type |-> "GameEnded", game_id |-> gm.game_id,
                                         winner |-> winner, winner_payout |-> winner_payout,
                                         house_fee |-> house_fee]>>)

\* (mutant) end_game without the status check.
end_game_any_status(ctx, winner_index, overflow_checks) ==
    LET g == ctx.game
        gm == game[g]
    IN  IF ~(winner_index < MaxPlayers) THEN Result("InvalidWinner", game, amount, << >>)
        ELSE LET winner == gm.players[winner_index] IN
        IF winner = DefaultPubkey THEN Result("InvalidWinner", game, amount, << >>)
        ELSE LET game1 == [game EXCEPT ![g].winner = Some(winner), ![g].status = "Finished"] IN
        IF overflow_checks /\ U64MulOverflows(gm.stake_amount, PoolMultiplier)
        THEN Result("ProgramFailedToComplete", game1, amount, << >>)
        ELSE LET total_pool == U64Mul(gm.stake_amount, PoolMultiplier)
                 house_fee == total_pool \div FeeDivisor
                 winner_payout == total_pool - house_fee
                 t1 == token_transfer(amount, ctx.vault, ctx.winner_token_account,
                                      Owner(ctx.vault), winner_payout)
             IN  IF t1.err # "Ok" THEN Result(t1.err, game1, t1.amount, << >>)
                 ELSE LET t2 == token_transfer(t1.amount, ctx.vault, ctx.house_token_account,
                                               Owner(ctx.vault), house_fee)
                      IN  IF t2.err # "Ok" THEN Result(t2.err, game1, t2.amount, << >>)
                          ELSE Result("Ok", game1, t2.amount,
                                      <<[type |-> "GameEnded", game_id |-> gm.game_id,
                                         winner |-> winner, winner_payout |-> winner_payout,
                                         house_fee |-> house_fee]>>)

\* overflow_checks: whether the build panics on u64 overflow (the handler
\* then fails) or wraps.
end_game(ctx, winner_index, overflow_checks) ==
    LET g == ctx.game
        gm == game[g]
    IN  IF gm.status # "Live" THEN Result("GameNotLive", game, amount, << >>)
        ELSE IF ~(winner_index < MaxPlayers) THEN Result("InvalidWinner", game, amount, << >>)
        ELSE LET winner == gm.players[winner_index] IN
        IF winner = DefaultPubkey THEN Result("InvalidWinner", game, amount, << >>)
        ELSE LET game1 == [game EXCEPT ![g].winner = Some(winner), ![g].status = "Finished"] IN
        IF overflow_checks /\ U64MulOverflows(gm.stake_amount, PoolMultiplier)
        THEN Result("ProgramFailedToComplete", game1, amount, << >>)
        ELSE LET total_pool == U64Mul(gm.stake_amount, PoolMultiplier)
                 house_fee == total_pool \div FeeDivisor
                 winner_payout == total_pool - house_fee
                 t1 == token_transfer(amount, ctx.vault, ctx.winner_token_account,
                                      Owner(ctx.vault), winner_payout)
             IN  IF t1.err # "Ok" THEN Result(t1.err, game1, t1.amount, << >>)
                 ELSE LET t2 == token_transfer(t1.amount, ctx.vault, ctx.house_token_account,
                                               Owner(ctx.vault), house_fee)
                      IN  IF t2.err # "Ok" THEN Result(t2.err, game1, t2.amount, << >>)
                          ELSE Result("Ok", game1, t2.amount,
                                      <<[type |-> "GameEnded", game_id |-> gm.game_id,
                                         winner |-> winner, winner_payout |-> winner_payout,
                                         house_fee |-> house_fee]>>)

\* (mutant) cancel_game without the check of the caller.
cancel_game_any_caller(ctx) ==
    LET g == ctx.game
        gm == game[g]
    IN  IF gm.status # "Waiting" THEN Result("GameNotWaiting", game, amount, << >>)
        ELSE Result("Ok", [game EXCEPT ![g].status = "Cancelled"], amount,
                    <<[type |-> "GameCancelled", game_id |-> gm.game_id]>>)

\* (mutant) cancel_game without the status check.
cancel_game_any_status(ctx) ==
    LET g == ctx.game
        gm == game[g]
    IN  IF ctx.authority # gm.creator THEN Result("Unauthorized", game, amount, << >>)
        ELSE Result("Ok", [game EXCEPT ![g].status = "Cancelled"], amount,
                    <<[type |-> "GameCancelled", game_id |-> gm.game_id]>>)

cancel_game(ctx) ==
    LET g == ctx.game
        gm == game[g]
    IN  IF gm.status # "Waiting" THEN Result("GameNotWaiting", game, amount, << >>)
        ELSE IF ctx.authority # gm.creator THEN Result("Unauthorized", game, amount, << >>)
        ELSE Result("Ok", [game EXCEPT ![g].status = "Cancelled"], amount,
                    <<[type |-> "GameCancelled", game_id |-> gm.game_id]>>)

\* (mutant) refund_player without the check of the destination's owner.
refund_player_any_owner(ctx, player_index) ==
    LET g == ctx.game
        gm == game[g]
    IN  IF gm.status # "Cancelled" THEN Result("GameNotCancelled", game, amount, << >>)
        ELSE IF ~(player_index < gm.player_count)
             THEN Result("InvalidPlayer", game, amount, << >>)
        ELSE LET player == gm.players[player_index]
                 t == token_transfer(amount, ctx.vault, ctx.player_token_account,
                                     Owner(ctx.vault), gm.stake_amount)
             IN  IF t.err # "Ok" THEN Result(t.err, game, t.amount, << >>)
                 ELSE Result("Ok", game, t.amount,
                             <<[type |-> "PlayerRefunded", game_id |-> gm.game_id,
                                player |-> player, amount |-> gm.stake_amount]>>)

refund_player(ctx, player_index) ==
    LET g == ctx.game
        gm == game[g]
    IN  IF gm.status # "Cancelled" THEN Result("GameNotCancelled", game, amount, << >>)
        ELSE IF ~(player_index < gm.player_count)
             THEN Result("InvalidPlayer", game, amount, << >>)
        ELSE LET player == gm.players[player_index] IN
        IF Owner(ctx.player_token_account) # player
        THEN Result("WrongPlayer", game, amount, << >>)
        ELSE LET t == token_transfer(amount, ctx.vault, ctx.player_token_account,
                                     Owner(ctx.vault), gm.stake_amount)
             IN  IF t.err # "Ok" THEN Result(t.err, game, t.amount, << >>)
                 ELSE Result("Ok", game, t.amount,
                             <<[type |-> "PlayerRefunded", game_id |-> gm.game_id,
                                player |-> player, amount |-> gm.stake_amount]>>)

\* ------------------------------------------------------------- event log
\* The PlayerRefunded events so far, summed per game and player.
RECURSIVE Logged(_, _)
Logged(log, ev) ==
    IF ev = << >> THEN log
    ELSE LET e == Head(ev)
             log1 == IF e.type = "PlayerRefunded"
                     THEN [log EXCEPT ![e.game_id][e.player] = @ + e.amount]
                     ELSE log
         IN  Logged(log1, Tail(ev))

\* ---------------------------------------------------------------- budget
RECURSIVE SumOver(_, _)
SumOver(f, S) ==
    IF S = {} THEN 0
    ELSE LET x == CHOOSE y \in S : TRUE IN f[x] + SumOver(f, S \ {x})

RefundsOf(g) ==
    IF game[g].stake_amount = 0 THEN 0
    ELSE SumOver(refunded[g], Users) \div game[g].stake_amount

OpsOf(g) ==
    IF ~game[g].initialized THEN 0
    ELSE 1 + game[g].player_count
           + (IF game[g].status \in {"Live", "Finished"} THEN 1 ELSE 0)
           + (IF game[g].status \in {"Finished", "Cancelled"} THEN 1 ELSE 0)
           + RefundsOf(g)

OpsDone == SumOver([g \in GameIds |-> OpsOf(g)], GameIds)

\* ---------------------------------------------------------------- actions
\* One instruction: validation, the handler, the write-back, and the
\* record of what was asked and how it ended.
Execute(op, g, valid, handled) ==
    LET res == IF valid # "Ok" THEN Result(valid, game, amount, << >>) ELSE handled
        c == Committed(res)
    IN  /\ game' = c.game
        /\ amount' = c.amount
        /\ refunded' = Logged(refunded, c.ev)
        /\ last' = [op |-> op, g |-> g, err |-> res.err]

Vaults == {Vault(g) : g \in GameIds}

\* The players arrive at a game in the order of their keys: the caller of
\* join is a key already in the game or the next one.
Arrives(g, player) == player <= game[g].player_count + 1

\* The token accounts a caller hands to an instruction on game g, beside
\* the game's vault: accounts that exist, other than that vault.
Supplied(g, S) == {acc \in S : Exists(acc) /\ acc # Vault(g)}
JoinSources(g, player) == Supplied(g, {Wallet(player), Wallet(HouseKey), OtherMint})
WinnerAccounts(g) == Supplied(g, {Wallet(1), Wallet(3), OtherMint} \cup Vaults)
HouseAccounts(g) == Supplied(g, {Wallet(HouseKey), OtherMint})
RefundAccounts(g) == Supplied(g, {Wallet(1), Wallet(3), OtherMint} \cup Vaults)

\* The builds that differ on a game: with and without overflow checks when
\* its pool overflows, one otherwise.
Builds(g) ==
    IF U64MulOverflows(game[g].stake_amount, PoolMultiplier) THEN BOOLEAN ELSE {TRUE}

Create(creator, game_id, stake_amount, clock) ==
    LET ctx == [game |-> game_id, vault |-> Vault(game_id), creator |-> creator]
    IN  Execute("create", game_id, CreateGame(ctx, game_id),
                create_game(ctx, game_id, stake_amount, clock))

Join(g, player, player_token_account, vault) ==
    LET ctx == [game |-> g, vault |-> vault, player |-> player,
                player_token_account |-> player_token_account]
    IN  /\ Arrives(g, player)
        /\ Execute("join", g, JoinGame(ctx), join_game(ctx))

Start(g, authority, clock) ==
    LET ctx == [game |-> g, authority |-> authority]
    IN  Execute("start", g, StartGame(ctx), start_game(ctx, clock))

End(g, authority, winner_index, w, h, vault, overflow_checks) ==
    LET ctx == [game |-> g, vault |-> vault, authority |-> authority,
                winner_token_account |-> w, house_token_account |-> h]
    IN  Execute("end", g, EndGame(ctx),
                end_game(ctx, winner_index, overflow_checks))

Cancel(g, authority) ==
    LET ctx == [game |-> g, authority |-> authority]
    IN  Execute("cancel", g, CancelGame(ctx), cancel_game(ctx))

Refund(g, player_index, player_token_account, vault) ==
    LET ctx == [game |-> g, vault |-> vault,
                player_token_account |-> player_token_account]
    IN  Execute("refund", g, RefundPlayer(ctx),
                refund_player(ctx, player_index))

\* The environment: any caller may submit any instruction at any time,
\* until MaxOps instructions have succeeded.
Budget == OpsDone < MaxOps

Next ==
    \/ /\ Budget
       /\ \E r \in CreateRequests, clock \in ClockAtCreate :
            Create(r.creator, r.game_id, r.stake_amount, clock)
    \/ /\ Budget
       /\ \E g \in GameIds, player \in Users :
            \E src \in JoinSources(g, player) : Join(g, player, src, Vault(g))
    \/ /\ Budget
       /\ \E g \in GameIds, authority \in Users, clock \in ClockAtStart :
            Start(g, authority, clock)
    \/ /\ Budget
       /\ \E g \in GameIds, winner_index \in Indexes :
            \E w \in WinnerAccounts(g), h \in HouseAccounts(g), overflow_checks \in Builds(g) :
                End(g, game[g].creator, winner_index, w, h, Vault(g), overflow_checks)
    \/ /\ Budget
       /\ \E g \in GameIds, authority \in Users : Cancel(g, authority)
    \/ /\ Budget
       /\ \E g \in GameIds, player_index \in Indexes :
            \E dst \in RefundAccounts(g) : Refund(g, player_index, dst, Vault(g))

Spec == Init /\ [][Next]_vars

\* ------------------------------------------------- joins in any order
\* One game and its joins, the callers arriving in any order.
JoinInAnyOrder(g, player, player_token_account, vault) ==
    LET ctx == [game |-> g, vault |-> vault, player |-> player,
                player_token_account |-> player_token_account]
    IN  Execute("join", g, JoinGame(ctx), join_game(ctx))

NextJoin ==
    \/ \E r \in CreateRequests, clock \in ClockAtCreate :
          /\ r.game_id = 0
          /\ Create(r.creator, r.game_id, r.stake_amount, clock)
    \/ \E player \in Users :
          \E src \in JoinSources(0, player) : JoinInAnyOrder(0, player, src, Vault(0))

SpecJoin == Init /\ [][NextJoin]_vars

\* ------------------------------------------------------------ vocabulary
Populated(gm) == {gm.players[i] : i \in {j \in Slots : j < gm.player_count}}

\* The USDC held in the token accounts that key k owns.
Balance(amt, k) ==
    SumOver(amt, {acc \in TokenAccounts : Owner(acc) = k /\ Mint(acc) = "USDC"})

\* The step is instruction op on game g, and it succeeded / failed.
Succeeds(op, g) == last'.op = op /\ last'.g = g /\ last'.err = "Ok"
Fails(op, g) == last'.op = op /\ last'.g = g /\ last'.err # "Ok"

EndContext(g, w, h) ==
    [game |-> g, vault |-> Vault(g), authority |-> game[g].creator,
     winner_token_account |-> w, house_token_account |-> h]

\* ---------------------------------------------------------------- claims

\* C1: while a game is Waiting or Live, its vault holds exactly
\* stake_amount * player_count.
\* Stated as the claim has it; end_game on one game can pay into the vault of
\* another, so TLC finds it violated.
C1_VaultHoldsStakes ==
    \A g \in GameIds :
        (game[g].initialized /\ game[g].status \in {"Waiting", "Live"})
            => amount[Vault(g)] = game[g].stake_amount * game[g].player_count

\* C2: every successful end takes stake_amount * 5 out of the vault, adds
\* winner_payout to the balance owned by players[winner_index] and house_fee
\* to the house's balance, and leaves status Finished with that winner.
\* Stated as the claim has it; the destinations are whatever accounts the
\* caller names, so TLC finds it violated.
C2_EndPaysWinnerAndHouse ==
    [][\A g \in GameIds :
          Succeeds("end", g) =>
            LET pool == game[g].stake_amount * PoolMultiplier
                fee == pool \div FeeDivisor
            IN  /\ game'[g].status = "Finished"
                /\ game'[g].winner # None
                /\ game'[g].winner[1] \in Populated(game[g])
                /\ amount'[Vault(g)] = amount[Vault(g)] - pool
                /\ Balance(amount', game'[g].winner[1])
                      = Balance(amount, game'[g].winner[1]) + (pool - fee)
                /\ Balance(amount', HouseKey) = Balance(amount, HouseKey) + fee]_vars

\* C3: in a Cancelled game no player is refunded more than stake_amount in
\* total.
\* Stated as the claim has it; refund_player keeps no record of who was
\* refunded, so TLC finds it violated.
C3_NoDoubleRefund ==
    \A g \in GameIds : \A u \in Users : refunded[g][u] <= game[g].stake_amount

C5_StatusForwardOnly ==
    [][\A g \in GameIds :
          game[g].initialized =>
            /\ game'[g].initialized
            /\ \/ game'[g].status = game[g].status
               \/ /\ game[g].status = "Waiting" /\ game'[g].status = "Live"
                  /\ Succeeds("start", g)
               \/ /\ game[g].status = "Live" /\ game'[g].status = "Finished"
                  /\ Succeeds("end", g)
               \/ /\ game[g].status = "Waiting" /\ game'[g].status = "Cancelled"
                  /\ Succeeds("cancel", g)]_vars

\* C5, the case: a game has gone Waiting -> Live -> Finished.
C5_GameFinished ==
    \E g \in GameIds :
        /\ game[g].status = "Finished"
        /\ last = [op |-> "end", g |-> g, err |-> "Ok"]

\* C6: a cancel succeeds exactly when its caller is the creator and the game
\* is Waiting, and otherwise fails with GameNotWaiting or Unauthorized; no
\* cancel moves funds; a Cancelled game stays Cancelled, and no join, start
\* or end on it succeeds.
C6_CancelOnlyByCreatorWhileWaiting ==
    [][\A g \in GameIds :
          game[g].initialized =>
            /\ \A a \in Users :
                  (last'.op = "cancel" /\ last'.g = g /\ Cancel(g, a)) =>
                    /\ last'.err = "Ok"
                          <=> (a = game[g].creator /\ game[g].status = "Waiting")
                    /\ last'.err \in {"Ok", "GameNotWaiting", "Unauthorized"}
                    /\ last'.err = "Ok" => game'[g].status = "Cancelled"
                    /\ amount' = amount
            /\ game[g].status = "Cancelled" =>
                  /\ game'[g].status = "Cancelled"
                  /\ (last'.g = g /\ last'.op \in {"join", "start", "end"})
                        => last'.err # "Ok"]_vars

\* C6, the case: a join has been tried on a game after its cancel, and failed.
C6_JoinAfterCancelFailed ==
    \E g \in GameIds :
        /\ game[g].status = "Cancelled"
        /\ last = [op |-> "join", g |-> g, err |-> "GameNotWaiting"]

\* What refund_player answers to the request (player_index i, destination
\* dst) on game g in the present state.
RefundOutcome(g, i, dst) ==
    refund_player([game |-> g, vault |-> Vault(g), player_token_account |-> dst], i)

\* The successful refunds: on a Cancelled game only, of a joined player's
\* index, to an account that player owns, stake_amount out of the vault and
\* into that account, the Game account untouched.
RefundsPayThePlayer ==
    \A g \in GameIds, i \in Indexes :
      \A dst \in RefundAccounts(g) :
        LET r == RefundOutcome(g, i, dst)
        IN  (game[g].initialized /\ r.err = "Ok") =>
              /\ game[g].status = "Cancelled"
              /\ i < game[g].player_count
              /\ Owner(dst) = game[g].players[i]
              /\ r.game = game
              /\ r.amount = [amount EXCEPT ![Vault(g)] = @ - game[g].stake_amount,
                                           ![dst] = @ + game[g].stake_amount]

\* A successful refund step is one of those: the step moves stake_amount
\* from the vault to an account of one of the players and nothing else.
RefundStepPaysAPlayer ==
    \A g \in GameIds :
        Succeeds("refund", g) =>
            /\ game[g].status = "Cancelled"
            /\ game' = game
            /\ \E i \in Slots, dst \in RefundAccounts(g) :
                  /\ i < game[g].player_count
                  /\ Owner(dst) = game[g].players[i]
                  /\ amount' = [amount EXCEPT ![Vault(g)] = @ - game[g].stake_amount,
                                              ![dst] = @ + game[g].stake_amount]

\* C7 as claimed: a refund succeeds only on a Cancelled game, moves exactly
\* stake_amount from the vault to an account owned by players[player_index]
\* and leaves the Game account as it was; a refund whose player_index is not
\* below player_count fails with InvalidPlayer.
C7_RefundAsClaimed ==
    /\ []RefundsPayThePlayer
    /\ [][/\ RefundStepPaysAPlayer
          /\ last'.op = "refund" =>
                \A g \in {last'.g}, i \in Indexes, dst \in RefundAccounts(last'.g) :
                    (game[g].initialized /\ ~(i < game[g].player_count)
                       /\ Refund(g, i, dst, Vault(g)))
                        => last'.err = "InvalidPlayer"]_vars

\* C7 as amended: the same, with the last part for a Cancelled game: on a
\* Cancelled game a refund whose player_index is not below player_count fails
\* with InvalidPlayer, and on a game that is not Cancelled every refund
\* fails with GameNotCancelled.
C7_RefundOnCancelledGame ==
    /\ [](/\ RefundsPayThePlayer
          /\ \A g \in GameIds, i \in Indexes :
              \A dst \in RefundAccounts(g) :
                game[g].initialized =>
                    /\ (game[g].status = "Cancelled" /\ ~(i < game[g].player_count))
                          => RefundOutcome(g, i, dst).err = "InvalidPlayer"
                    /\ game[g].status # "Cancelled"
                          => RefundOutcome(g, i, dst).err = "GameNotCancelled")
    /\ [][/\ RefundStepPaysAPlayer
          /\ \A g \in GameIds :
                (Fails("refund", g) /\ game[g].initialized /\ game[g].status # "Cancelled")
                    => last'.err = "GameNotCancelled"]_vars

\* C7, the case: a refund has paid a stake out of the vault of a Cancelled
\* game, and a refund of an index past the players has failed there.
C7_RefundPaid ==
    \E g \in GameIds :
        /\ game[g].status = "Cancelled"
        /\ game[g].stake_amount > 0
        /\ game[g].player_count \in 1..(MaxPlayers - 1)
        /\ refunded[g][game[g].players[0]] = game[g].stake_amount
        /\ last = [op |-> "refund", g |-> g, err |-> "InvalidPlayer"]

\* C8: a game is Live only with a stake whose pool stake_amount * 5 fits
\* 64 bits, and a successful end computes total_pool as that product,
\* house_fee as floor(total_pool / 20) and winner_payout as the rest, so the
\* two add up to the pool (1000: 5000/250/4750; 19: 95/4/91).
C8_PayoutArithmetic ==
    [][\A g \in GameIds :
          /\ game[g].status = "Live" => game[g].stake_amount * PoolMultiplier <= U64Max
          /\ Succeeds("end", g) =>
                \A i \in Indexes, w \in WinnerAccounts(g), h \in HouseAccounts(g),
                   overflow_checks \in BOOLEAN :
                    LET r == end_game(EndContext(g, w, h), i, overflow_checks)
                        pool == game[g].stake_amount * PoolMultiplier
                    IN  r.err = "Ok" =>
                          /\ r.ev[1].house_fee = pool \div FeeDivisor
                          /\ r.ev[1].winner_payout = pool - r.ev[1].house_fee
                          /\ r.ev[1].winner_payout + r.ev[1].house_fee = pool
                          /\ game[g].stake_amount = 1000 =>
                                /\ r.ev[1].house_fee = 250
                                /\ r.ev[1].winner_payout = 4750
                          /\ game[g].stake_amount = 19 =>
                                /\ r.ev[1].house_fee = 4
                                /\ r.ev[1].winner_payout = 91]_vars

\* C8, the case: a game with stake 19 has ended, 91 paid to the winner's
\* account and 4 to the house's.
C8_EndedWithStake19 ==
    \E g \in GameIds :
        /\ last = [op |-> "end", g |-> g, err |-> "Ok"]
        /\ game[g].stake_amount = 19
        /\ amount[Wallet(HouseKey)] = 4
        /\ amount[Wallet(1)] = InitialBalance[1] - 19 + 91

\* C9: an end on a game that is not Live fails with GameNotLive and changes
\* nothing; an end takes tokens out of a vault only when it is the end of
\* that vault's game, that game is Live with its seed committed, and the
\* step leaves it Finished (so at most once per game).
C9_NoPrematurePayout ==
    [][\A g \in GameIds :
          game[g].initialized =>
            /\ (last'.op = "end" /\ last'.g = g /\ game[g].status # "Live") =>
                  /\ last'.err = "GameNotLive"
                  /\ game' = game
                  /\ amount' = amount
            /\ (last'.op = "end" /\ amount'[Vault(g)] < amount[Vault(g)]) =>
                  /\ Succeeds("end", g)
                  /\ game[g].status = "Live"
                  /\ game[g].started_at # None
                  /\ game[g].seed = <<game[g].game_id, game[g].seed[2], game[g].seed[3], 0>>
                  /\ game'[g].status = "Finished"]_vars

\* C9, the case: an end has been tried again on a game already paid out.
C9_EndAfterFinished ==
    \E g \in GameIds :
        /\ game[g].status = "Finished"
        /\ last = [op |-> "end", g |-> g, err |-> "GameNotLive"]

\* C10: a start on an existing game, by any caller, succeeds exactly when
\* the game is Waiting with 5 players; it fails with GameNotWaiting when the
\* game is not Waiting and with NotEnoughPlayers when it is Waiting with
\* fewer.
C10_StartIffWaitingAndFull ==
    [][last'.op = "start" =>
        \A g \in {last'.g}, a \in Users, clock \in ClockAtStart :
          (game[g].initialized /\ Start(g, a, clock)) =>
            /\ last'.err = "Ok"
                  <=> (game[g].status = "Waiting" /\ game[g].player_count = MaxPlayers)
            /\ game[g].status # "Waiting" => last'.err = "GameNotWaiting"
            /\ (game[g].status = "Waiting" /\ game[g].player_count < MaxPlayers)
                  => last'.err = "NotEnoughPlayers"
            /\ last'.err = "Ok" => game'[g].status = "Live"]_vars

\* C10, the case: a start has succeeded on a full Waiting game.
C10_Started ==
    \E g \in GameIds :
        /\ game[g].status = "Live"
        /\ game[g].player_count = MaxPlayers
        /\ last = [op |-> "start", g |-> g, err |-> "Ok"]

\* The 32 zero bytes create_game stores as the seed.
ZeroSeed == <<0, 0, 0, 0>>

\* C11: the seed of a game differs from all-zero exactly when its status is
\* Live or Finished.
\* Stated as the claim has it; the seed of the game with the all-zero
\* game_id started at slot 0 and time 0 is all-zero, so TLC finds it
\* violated.
C11_SeedNonzeroIffStarted ==
    \A g \in GameIds :
        game[g].initialized =>
            (game[g].seed # ZeroSeed <=> game[g].status \in {"Live", "Finished"})

\* C12: once a game is Live or Finished no step changes its seed or its
\* started_at, a start on it fails with GameNotWaiting, and so does
\* start_game for every caller and every clock reading.
C12_SeedFixedAfterStart ==
    [][\A g \in GameIds :
          (game[g].initialized /\ game[g].status \in {"Live", "Finished"}) =>
            /\ game'[g].seed = game[g].seed
            /\ game'[g].started_at = game[g].started_at
            /\ game[g].started_at # None
            /\ (last'.op = "start" /\ last'.g = g) => last'.err = "GameNotWaiting"
            /\ \A a \in Users, clock \in ClockAtStart :
                  LET r == start_game([game |-> g, authority |-> a], clock)
                  IN  r.err = "GameNotWaiting" /\ r.game = game]_vars

\* C12, the case: a start has been tried on a game started at the other
\* clock reading, and failed.
C12_RestartFailed ==
    \E g \in GameIds :
        /\ game[g].status = "Live"
        /\ game[g].seed = <<g, 0, 0, 0>>
        /\ game[g].started_at = Some(0)
        /\ last = [op |-> "start", g |-> g, err |-> "GameNotWaiting"]
        /\ start_game([game |-> g, authority |-> 1],
                      [slot |-> 2, unix_timestamp |-> 20]).err = "GameNotWaiting"

\* C13: on a Waiting game with a positive stake, a join by a caller who is
\* not among the players and holds the stake in the account it pays from
\* succeeds while player_count is below 5, in whatever order the callers
\* come: it appends the caller, raises player_count by one and moves the
\* stake into the vault; with 5 players it fails with GameFull and changes
\* nothing.
C13_FiveJoinsThenFull ==
    [][last'.op = "join" =>
        \A g \in {last'.g}, player \in Users \ Populated(game[last'.g]) :
          (/\ game[g].initialized
           /\ game[g].status = "Waiting"
           /\ game[g].stake_amount > 0
           /\ amount[Wallet(player)] >= game[g].stake_amount
           /\ JoinInAnyOrder(g, player, Wallet(player), Vault(g))) =>
              IF game[g].player_count < MaxPlayers
              THEN /\ last'.err = "Ok"
                   /\ game'[g].players
                         = [game[g].players EXCEPT ![game[g].player_count] = player]
                   /\ game'[g].player_count = game[g].player_count + 1
                   /\ amount'[Vault(g)] = amount[Vault(g)] + game[g].stake_amount
                   /\ amount'[Wallet(player)] = amount[Wallet(player)] - game[g].stake_amount
              ELSE /\ last'.err = "GameFull"
                   /\ game' = game
                   /\ amount' = amount]_vars

\* C13, the case: five callers have joined a game with a positive stake in
\* an order that is not the order of their keys, and a join has then failed
\* with GameFull.
C13_SixthJoinRefused ==
    \E g \in GameIds :
        /\ game[g].stake_amount > 0
        /\ game[g].player_count = MaxPlayers
        /\ game[g].players[0] > game[g].players[1]
        /\ game[g].players[3] > game[g].players[4]
        /\ amount[Vault(g)] = game[g].stake_amount * MaxPlayers
        /\ Users \ Populated(game[g]) # {}
        /\ last = [op |-> "join", g |-> g, err |-> "GameFull"]

\* C14 as claimed: on a Waiting game, a join by an identity already among
\* the players fails with AlreadyJoined, with fewer than 5 players and with
\* 5, and moves no tokens.
C14_RejoinAsClaimed ==
    [][last'.op = "join" =>
        \A g \in {last'.g}, player \in Populated(game[last'.g]) :
          \A src \in JoinSources(g, player) :
            (/\ game[g].initialized
             /\ game[g].status = "Waiting"
             /\ Join(g, player, src, Vault(g))) =>
                /\ last'.err = "AlreadyJoined"
                /\ amount' = amount]_vars

\* C14 as amended: a join by an identity already among the players fails
\* and changes neither the Game account nor any balance; the error is
\* AlreadyJoined on a Waiting game with fewer than 5 players, GameFull on a
\* Waiting game with 5, and GameNotWaiting on a game that is not Waiting.
C14_RejoinRefused ==
    [][last'.op = "join" =>
        \A g \in {last'.g}, player \in Populated(game[last'.g]) :
          \A src \in JoinSources(g, player) :
            (game[g].initialized /\ Join(g, player, src, Vault(g))) =>
                /\ game' = game
                /\ amount' = amount
                /\ last'.err = IF game[g].status # "Waiting" THEN "GameNotWaiting"
                               ELSE IF game[g].player_count = MaxPlayers THEN "GameFull"
                               ELSE "AlreadyJoined"]_vars

\* C14, the case: a player of a Waiting game that is not full has tried to
\* join it again and was refused, the vault holding the stakes paid.
C14_RejoinedBelowFive ==
    \E g \in GameIds :
        /\ game[g].status = "Waiting"
        /\ game[g].stake_amount > 0
        /\ game[g].player_count \in 1..(MaxPlayers - 1)
        /\ amount[Vault(g)] = game[g].stake_amount * game[g].player_count
        /\ last = [op |-> "join", g |-> g, err |-> "AlreadyJoined"]

\* Values of winner_index (u8) from 5 up.
PastPlayers == {MaxPlayers, MaxPlayers + 1, 255}

\* C15 as claimed: an end with winner_index >= 5 fails with InvalidWinner in
\* every state of the game and changes neither a Game account nor a
\* balance.
C15_EndPastPlayersAsClaimed ==
    [][last'.op = "end" =>
        \A g \in {last'.g}, w \in WinnerAccounts(last'.g), h \in HouseAccounts(last'.g) :
          (game[g].initialized
             /\ End(g, game[g].creator, MaxPlayers, w, h, Vault(g), TRUE)) =>
                /\ last'.err = "InvalidWinner"
                /\ game' = game
                /\ amount' = amount]_vars

\* C15 as amended: an end with winner_index >= 5 always fails and changes
\* neither a Game account nor a balance; the error is InvalidWinner on a
\* Live game and GameNotLive on a game that is not Live.
C15_EndPastPlayersRefused ==
    /\ [](\A g \in GameIds, i \in PastPlayers :
            \A w \in WinnerAccounts(g), h \in HouseAccounts(g), overflow_checks \in BOOLEAN :
              game[g].initialized =>
                LET r == end_game(EndContext(g, w, h), i, overflow_checks)
                IN  /\ r.err = IF game[g].status = "Live" THEN "InvalidWinner"
                               ELSE "GameNotLive"
                    /\ Committed(r).game = game
                    /\ Committed(r).amount = amount)
    /\ [][(last'.op = "end" /\ last'.err \in {"InvalidWinner", "GameNotLive"}) =>
            /\ game' = game
            /\ amount' = amount
            /\ last'.err = "InvalidWinner" <=> game[last'.g].status = "Live"]_vars

\* C15, the case: an end on a Live game, whose five players are all
\* populated, has failed with InvalidWinner: its winner_index was 5.
C15_EndPastPlayersOnLive ==
    \E g \in GameIds :
        /\ game[g].status = "Live"
        /\ game[g].winner = None
        /\ amount[Vault(g)] = game[g].stake_amount * MaxPlayers
        /\ last = [op |-> "end", g |-> g, err |-> "InvalidWinner"]

\* C16: the winner of a game is set exactly when its status is Finished, and
\* a winner that is set is one of players[0..player_count).
C16_WinnerIffFinished ==
    \A g \in GameIds :
        /\ game[g].winner # None <=> game[g].status = "Finished"
        /\ game[g].winner # None =>
              /\ Len(game[g].winner) = 1
              /\ game[g].winner[1] # DefaultPubkey
              /\ game[g].winner[1] \in Populated(game[g])

\* C16, the case: an end with winner_index 2 has left the game Finished
\* with players[2] as its winner.
C16_WinnerRecorded ==
    \E g \in GameIds :
        /\ game[g].status = "Finished"
        /\ game[g].winner = Some(game[g].players[2])
        /\ game[g].players[2] = 3
        /\ last = [op |-> "end", g |-> g, err |-> "Ok"]

\* The entries of players that hold a key (not Pubkey::default()).
PopulatedSlots(gm) == {i \in Slots : gm.players[i] # DefaultPubkey}

\* C17: player_count is in 0..5 and is the number of populated entries of
\* players; the populated entries are players[0..player_count) and are
\* pairwise distinct; and no step changes or removes an entry already
\* populated or lowers player_count.
C17_PlayersAppendOnly ==
    /\ [](\A g \in GameIds :
            /\ game[g].player_count \in 0..MaxPlayers
            /\ game[g].player_count = Cardinality(PopulatedSlots(game[g]))
            /\ PopulatedSlots(game[g]) = {i \in Slots : i < game[g].player_count}
            /\ \A i, j \in PopulatedSlots(game[g]) :
                  game[g].players[i] = game[g].players[j] => i = j)
    /\ [][\A g \in GameIds :
            /\ game'[g].player_count >= game[g].player_count
            /\ \A i \in PopulatedSlots(game[g]) : game'[g].players[i] = game[g].players[i]
            /\ game'[g].player_count > game[g].player_count =>
                  /\ Succeeds("join", g)
                  /\ game'[g].player_count = game[g].player_count + 1]_vars

\* C17, the case: three players joined, the game was cancelled and a refund
\* was paid, and the three entries are as the joins wrote them.
C17_PlayersKeptAfterRefund ==
    \E g \in GameIds :
        /\ game[g].status = "Cancelled"
        /\ game[g].player_count = 3
        /\ game[g].players = [i \in Slots |-> IF i < 3 THEN i + 1 ELSE DefaultPubkey]
        /\ last = [op |-> "refund", g |-> g, err |-> "Ok"]

\* C18: the stake_amount of every existing Game account is positive and no
\* step changes it; a create on a game_id in use fails and leaves that game's
\* account and vault as they were.
\* Stated as the claim has it; create_game does not look at stake_amount, so
\* TLC finds it violated by a game created with stake 0.
C18_StakePositiveAndFixed ==
    /\ [](\A g \in GameIds : game[g].initialized => game[g].stake_amount > 0)
    /\ [][\A g \in GameIds :
            game[g].initialized =>
              /\ game'[g].stake_amount = game[g].stake_amount
              /\ (last'.op = "create" /\ last'.g = g) =>
                    /\ last'.err # "Ok"
                    /\ game'[g] = game[g]
                    /\ amount'[Vault(g)] = amount[Vault(g)]]_vars

\* C19: an instruction on one game leaves the Game account and the vault
\* balance of every other game as they were.
\* Stated as the claim has it; end_game on one game can pay into the vault of
\* another, so TLC finds it violated.
C19_GamesIndependent ==
    [][\A g \in GameIds :
          last'.g # g =>
            /\ game'[g] = game[g]
            /\ amount'[Vault(g)] = amount[Vault(g)]]_vars

\* The joined players of game g that no PlayerRefunded event names yet.
Unrefunded(g) == {u \in Populated(game[g]) : refunded[g][u] = 0}

\* C20: in a Cancelled game the vault holds at least stake_amount for each
\* joined player not yet refunded, so the refund of each of them to its own
\* account succeeds; and once all are refunded the vault is empty.
\* Stated as the claim has it; a player refunded twice takes the stake of
\* another, so TLC finds it violated.
C20_NoPlayerLockedOut ==
    \A g \in GameIds :
        (game[g].initialized /\ game[g].status = "Cancelled") =>
            /\ amount[Vault(g)] >= game[g].stake_amount * Cardinality(Unrefunded(g))
            /\ \A i \in Slots :
                  (i < game[g].player_count /\ game[g].players[i] \in Unrefunded(g))
                      => RefundOutcome(g, i, Wallet(game[g].players[i])).err = "Ok"
            /\ (game[g].stake_amount > 0 /\ Unrefunded(g) = {}) => amount[Vault(g)] = 0
====
